---- MODULE Spec2Model ----
(***************************************************************************)
(* IA Interact (src/ia-interact.py): a menu-driven client of the Internet  *)
(* Archive's metadata API and S3-like object API.  The module models main  *)
(* and the functions it calls as a sequential state machine.  One action   *)
(* runs the program from one blocking point (a prompt answered by the      *)
(* user, an HTTP exchange answered by the server) to the next.             *)
(*                                                                         *)
(* Text (paths, names, URLs) is a sequence of one-character strings, so    *)
(* that str.split, str.endswith, os.path.basename and the f-string joins   *)
(* are computed character by character.                                    *)
(***************************************************************************)
EXTENDS Integers, Sequences, FiniteSets, TLC

VARIABLES
    pc,          \* where main is: "menu", an HTTP exchange in flight, "done", "crashed"
    depth,       \* at the menu: how many times main has re-entered itself through Help
    accessKey,   \* os.getenv("S3_ACCESS_KEY")
    secretKey,   \* os.getenv("S3_SECRET_KEY")
    remote,      \* the item's file records on the server, in the server's order
    log,         \* the HTTP calls made through requests, oldest first
    report,      \* what has been printed (message, argument), oldest first
    choice,      \* main: the menu choice being served
    identifier,  \* main: the repository identifier
    directory,   \* option 1: the target directory
    ret,         \* return value of the last function that returned one
    fileList,    \* main: list_repository_files' result
    selected,    \* main, options 3 and 4: file_list[index]
    srcPath,     \* move_file: source_path
    batch,       \* option 1: file_paths
    fileIdx,     \* option 1: index of the file being uploaded
    offset,      \* upload_file_with_progress: bytes of the file sent so far
    attempts,    \* outcomes of the wire attempts of the latest chunk PUT
    results,     \* option 1: upload_file_with_progress' result per file
    folder,      \* option 5: the folder on disk: its files, whether writable
    mode,        \* option 5: "Test" or "Permanent"
    walk,        \* initialize_repository: files os.walk has still to yield
    calls        \* SpecList: list_repository_files' calls, newest first

vars == <<pc, depth, accessKey, secretKey, remote, log, report, choice, identifier,
          directory, ret, fileList, selected, srcPath, batch, fileIdx, offset, attempts,
          results, folder, mode, walk, calls>>

(***************************************************************************)
(* Bounds of the model.                                                    *)
(***************************************************************************)
MaxHelp == 1        \* re-entries of main through option 6
MaxBatch == 2       \* paths typed in one upload batch
MaxFiles == 3       \* file records in a listing (SpecList)

(***************************************************************************)
(* Text.                                                                   *)
(***************************************************************************)
Slash == "/"
Empty == <<>>

Thumbs == <<".", "t", "h", "u", "m", "b", "s">>

\* str.endswith
EndsWith(s, suffix) ==
    /\ Len(s) >= Len(suffix)
    /\ SubSeq(s, Len(s) - Len(suffix) + 1, Len(s)) = suffix

\* str.split("/"): the maximal runs between separators, empty runs included
RECURSIVE SplitFrom(_, _, _)
SplitFrom(s, i, cur) ==
    IF i > Len(s) THEN <<cur>>
    ELSE IF s[i] = Slash THEN <<cur>> \o SplitFrom(s, i + 1, Empty)
    ELSE SplitFrom(s, i + 1, Append(cur, s[i]))

Split(s) == SplitFrom(s, 1, Empty)

\* os.path.basename: what follows the last "/"
Basename(p) == LET parts == Split(p) IN parts[Len(parts)]

\* f"{a}/{b}"
Join(a, b) == a \o <<Slash>> \o b

(***************************************************************************)
(* The values the environment may hand the program.                        *)
(***************************************************************************)
\* an environment variable: absent, set to "", or set to a key
CredValues == {"unset", "", "KEY"}

\* The outcome of an HTTP exchange is the response's status, or Exc: a
\* transport failure (connection, TLS, timeout) raised as an exception.
\* Each request is answered with the statuses the service has for it; no
\* response carries a Retry-After header.
Exc == "exc"
GetAnswers == {"200", "404", "503", Exc}
PutAnswers == {"200", "201", "404", "503", Exc}
DeleteAnswers == {"200", "204", "404", "503", Exc}
PostAnswers == {"200", "201", "404", "503", Exc}

\* a 2xx answer: the server has carried the request out
ServerDid == {"200", "201", "204"}

NameJpg == <<"a", "/", "b", ".", "j", "p", "g">>
NameThumbDir == <<"a", "/", "b", ".", "t", "h", "u", "m", "b", "s", "/", "c">>
NameThumbFile == <<"x", ".", "t", "h", "u", "m", "b", "s">>
NameTxt == <<"c", ".", "t", "x", "t">>
NameNear == <<"x", ".", "t", "h", "u", "m", "b", "s", "y">>
NameBare == <<"t", "h", "u", "m", "b", "s">>
Names == {NameJpg, NameThumbDir, NameThumbFile, NameTxt, NameNear, NameBare}

\* one record of the metadata document's "files" array; a record may lack "name"
Named(n) == [hasName |-> TRUE, name |-> n]
Unnamed == [hasName |-> FALSE, name |-> Empty]
FileRecords == {Named(n) : n \in Names} \cup {Unnamed}

\* the sequences over S of length at most n
SeqsUpTo(S, n) == UNION {[1..k -> S] : k \in 0..n}

(***************************************************************************)
(* list_repository_files                                                   *)
(***************************************************************************)
\* any(part.endswith(".thumbs") for part in parts)
AnyThumbsWhole(parts) == EndsWith(parts[Len(parts)], Thumbs)

AnyThumbs(parts) == \E i \in 1..Len(parts) : EndsWith(parts[i], Thumbs)

\* the for loop over files, from record i on, file_list being acc
RECURSIVE FilterLoop(_, _, _)
FilterLoop(files, i, acc) ==
    IF i > Len(files) THEN acc
    ELSE IF ~files[i].hasName THEN FilterLoop(files, i + 1, acc)
    ELSE IF AnyThumbs(Split(files[i].name)) THEN FilterLoop(files, i + 1, acc)
    ELSE FilterLoop(files, i + 1, Append(acc, files[i].name))

\* the function's return value, given the GET's outcome and the document's files
ListRepositoryFiles(outcome, files) ==
    IF outcome = Exc THEN <<>>
    ELSE IF outcome # "200" THEN <<>>
    ELSE FilterLoop(files, 1, <<>>)

\* what the function prints
ListMessage(outcome, files) ==
    IF outcome = Exc THEN "Error listing files"
    ELSE IF outcome # "200" THEN "Error fetching metadata"
    ELSE IF ListRepositoryFiles(outcome, files) # <<>> THEN "Files in repository"
    ELSE "No files found in repository"

(***************************************************************************)
(* get_repo_identifier.  "M" stands for the text archive.org/details/ ; a  *)
(* link holds it at most once.  The result is the run of non-"/"           *)
(* characters after the first marker that is followed by one; Empty is the *)
(* function's None.                                                        *)
(***************************************************************************)
Marker == "M"

RECURSIVE RunFrom(_, _)
RunFrom(s, i) ==
    IF i > Len(s) \/ s[i] = Slash THEN Empty ELSE <<s[i]>> \o RunFrom(s, i + 1)

GetRepoIdentifier(link) ==
    LET at == {i \in 1..Len(link) : link[i] = Marker /\ RunFrom(link, i + 1) # Empty}
    IN  IF at = {} THEN Empty
        ELSE RunFrom(link, (CHOOSE i \in at : \A j \in at : i <= j) + 1)

Ident == <<"i", "d">>
Links == {<<Marker>> \o Ident,
          <<Marker>> \o Ident \o <<Slash, "x">>,
          <<"h", Slash>> \o Ident,
          <<Marker, Slash>> \o Ident}

(***************************************************************************)
(* The local filesystem the prompts' answers name (read only).             *)
(***************************************************************************)
\* f.read(1024 * 1024 * 2)
ChunkSize == 1024 * 1024 * 2

PathBig == <<"d", "/", "b">>
PathOne == <<"o">>
PathEmpty == <<"e">>
PathGone == <<"g">>
LocalPaths == {PathBig, PathOne, PathEmpty, PathGone}

\* os.path.exists
LocalExists(p) == p # PathGone

\* os.path.getsize
LocalSize(p) ==
    CASE p = PathBig -> 2 * ChunkSize + 1
      [] p = PathOne -> ChunkSize
      [] OTHER -> 0

\* files_input.split(",") has at least one element
Batches == SeqsUpTo(LocalPaths, MaxBatch) \ {<<>>}

\* directory names typed at the prompts
UploadDirs == {<<"t">>}
MoveDirs == {Empty, <<"a">>, <<"t">>}
MenuAnswers == {"1", "2", "x"}

(***************************************************************************)
(* The program's state as a record, and the steps shared by the functions. *)
(***************************************************************************)
Cur == [pc |-> pc, depth |-> depth, remote |-> remote, log |-> log,
        report |-> report, choice |-> choice, identifier |-> identifier,
        directory |-> directory, ret |-> ret, fileList |-> fileList,
        selected |-> selected, srcPath |-> srcPath, batch |-> batch,
        fileIdx |-> fileIdx, offset |-> offset, attempts |-> attempts,
        results |-> results, folder |-> folder, mode |-> mode, walk |-> walk]

\* the step to state n; the environment variables are never written.  The
\* frames of main below the innermost one only return once it has returned,
\* so their number is kept at the menu alone
Apply(n) ==
    /\ pc' = n.pc /\ depth' = (IF n.pc = "menu" THEN n.depth ELSE 0)
    /\ remote' = n.remote /\ log' = n.log
    /\ report' = n.report /\ choice' = n.choice /\ identifier' = n.identifier
    /\ directory' = n.directory /\ ret' = n.ret /\ fileList' = n.fileList
    /\ selected' = n.selected /\ srcPath' = n.srcPath /\ batch' = n.batch
    /\ fileIdx' = n.fileIdx /\ offset' = n.offset /\ attempts' = n.attempts
    /\ results' = n.results /\ folder' = n.folder /\ mode' = n.mode
    /\ walk' = n.walk
    /\ UNCHANGED <<accessKey, secretKey, calls>>

\* `not access_key`: None and "" are both falsy
Missing(k) == k \in {"unset", ""}

\* if not access_key or not secret_key
NoCredsAnd == Missing(accessKey) /\ Missing(secretKey)

NoCreds == Missing(accessKey) \/ Missing(secretKey)

\* print
Say(s, msg, arg) == [s EXCEPT !.report = Append(@, [msg |-> msg, arg |-> arg])]

\* print, then return from main
Done(s, msg, arg) == [Say(s, msg, arg) EXCEPT !.pc = "done"]

\* a call into requests: the request leaves, its outcome is pending
Request(method, host, path, copySource, caller, item) ==
    [method |-> method, host |-> host, path |-> path, copySource |-> copySource,
     caller |-> caller, item |-> item, outcome |-> "pending"]

Issue(s, at, req) == [s EXCEPT !.pc = at, !.log = Append(@, req)]

\* the outcome of the call in flight
Answer(s, o) == [s EXCEPT !.log = [@ EXCEPT ![Len(@)].outcome = o]]

Last(q) == q[Len(q)]

Bool(b) == IF b THEN "True" ELSE "False"

(***************************************************************************)
(* The object store behind the API: a 2xx answer means the server did it.  *)
(***************************************************************************)
HasObject(files, key) == \E i \in 1..Len(files) : files[i] = Named(key)

PutObject(files, key) ==
    IF HasObject(files, key) THEN files ELSE Append(files, Named(key))

DeleteObject(files, key) == SelectSeq(files, LAMBDA r : r # Named(key))

(***************************************************************************)
(* upload_file_with_progress, and main's loop over the batch (option 1)    *)
(***************************************************************************)
\* Retry(total=5, status_forcelist=[500, 502, 503, 504], allowed_methods=["PUT"])
RetryTotal == 5
StatusForcelist == {"500", "502", "503", "504"}

\* urllib3 spends one of `total` on a forcelisted status and on a transport error
Retried(o) == o \in StatusForcelist \/ o = Exc

\* Retry.increment after the n-th failed attempt: total = RetryTotal - n, and
\* the retries are exhausted (MaxRetryError) once total < 0
ExhaustedAtTotal(n) == RetryTotal - n <= 0

Exhausted(n) == RetryTotal - n < 0

\* upload_url without its scheme and host
UploadPath(id, dir, file, off) == Join(Join(id, dir), Basename(file))

\* the object's key within the item
UploadKey(dir, file) == Join(dir, Basename(file))

\* session.put(upload_url, data=chunk), the chunk being the one at s.offset
IssuePut(s) ==
    Issue([s EXCEPT !.attempts = <<>>], "put",
          Request("PUT", "s3",
                  UploadPath(s.identifier, s.directory, s.batch[s.fileIdx], s.offset),
                  Empty, "upload", s.fileIdx))

\* upload_file_with_progress returns res to main's loop, which goes on to the
\* next file
FileReturns(s, res, msg) ==
    [Say(s, msg, s.batch[s.fileIdx]) EXCEPT
        !.results = Append(@, res), !.ret = Bool(res), !.fileIdx = @ + 1]

\* len(chunk) of f.read(ChunkSize) at offset off of a file of the given size
ChunkLen(size, off) == IF size - off < ChunkSize THEN size - off ELSE ChunkSize

\* main's loop from file s.fileIdx on, up to the next PUT or to main's return
RECURSIVE NextUpload(_)
NextUpload(s) ==
    IF s.fileIdx > Len(s.batch) THEN
        Done(s, IF \A i \in 1..Len(s.results) : s.results[i]
                THEN "All files uploaded successfully!"
                ELSE "Some files failed to upload", Empty)
    ELSE IF NoCreds THEN
        NextUpload(FileReturns(s, FALSE, "S3 access key or secret key is missing"))
    ELSE IF ChunkLen(LocalSize(s.batch[s.fileIdx]), 0) = 0 THEN
        NextUpload(FileReturns(s, TRUE, "Successfully uploaded"))
    ELSE IssuePut([s EXCEPT !.offset = 0])

\* the loop body after a response with status 200: pbar.update, the next read
AfterChunk(s) ==
    LET size == LocalSize(s.batch[s.fileIdx])
        off == s.offset + ChunkLen(size, s.offset)
    IN  IF ChunkLen(size, off) = 0
        THEN NextUpload(FileReturns(s, TRUE, "Successfully uploaded"))
        ELSE IssuePut([s EXCEPT !.offset = off])

\* if response.status_code != 200: ... return False
ChunkRejectedGoOn(s, o) == AfterChunk(s)

ChunkRejected(s, o) == NextUpload(FileReturns(s, FALSE, "Error uploading"))

\* one wire attempt of the PUT in flight ends with outcome o
PutAnswer(s, o) ==
    LET now == Append(s.attempts, o)
        key == UploadKey(s.directory, s.batch[s.fileIdx])
        t == [s EXCEPT !.attempts = now,
                       !.remote = IF o \in ServerDid THEN PutObject(@, key) ELSE @]
    IN  IF Retried(o) THEN
            IF Exhausted(Len(now))
            THEN \* MaxRetryError, raised by requests as a RequestException
                 NextUpload(FileReturns(Answer(t, "raised"), FALSE, "Request error"))
            ELSE Answer(t, "retrying")
        ELSE IF o # "200" THEN ChunkRejected(Answer(t, o), o)
        ELSE AfterChunk(Answer(t, o))

\* option 1, from the link prompt to the first PUT
MainUploadCheckFirst(files) == ~LocalExists(files[1])

\* for file in file_paths: if not os.path.exists(file)
MainUploadCheck(files) == \E i \in 1..Len(files) : ~LocalExists(files[i])

MainUpload(s, link, dirChoice, dir, files) ==
    LET id == GetRepoIdentifier(link)
        s1 == [s EXCEPT !.choice = "1", !.identifier = id]
        s2 == [s1 EXCEPT !.directory = dir, !.batch = files]
    IN  IF id = Empty THEN Done(s1, "Invalid Internet Archive URL", link)
        ELSE IF dirChoice \notin {"1", "2"} THEN Done(s1, "Invalid choice. Exiting.", Empty)
        ELSE IF MainUploadCheck(files) THEN
            Done(s2, "File not found",
                 files[CHOOSE i \in 1..Len(files) :
                         /\ ~LocalExists(files[i])
                         /\ \A j \in 1..(i - 1) : LocalExists(files[j])])
        ELSE NextUpload([s2 EXCEPT !.fileIdx = 1, !.results = <<>>])

MenuUpload ==
    /\ pc = "menu"
    /\ \E link \in Links, dirChoice \in MenuAnswers, dir \in UploadDirs, files \in Batches :
          Apply(MainUpload(Cur, link, dirChoice, dir, files))

UploadAnswered ==
    /\ pc = "put"
    /\ \E o \in PutAnswers : Apply(PutAnswer(Cur, o))

(***************************************************************************)
(* delete_file and move_file, and main's options 2, 3 and 4                *)
(***************************************************************************)
MetadataWord == <<"m", "e", "t", "a", "d", "a", "t", "a">>

\* what follows a call of delete_file that returned res: main returns
\* (option 3), or move_file reports and returns (option 4)
AfterDelete(s, res) ==
    IF s.choice = "4" THEN
        IF res THEN Done([s EXCEPT !.ret = "True"], "File moved", s.srcPath)
        ELSE Done([s EXCEPT !.ret = "False"],
                  "File copied but failed to delete original", s.srcPath)
    ELSE [s EXCEPT !.ret = Bool(res), !.pc = "done"]

\* delete_file(identifier, path), up to its DELETE
DeleteFile(s, path) ==
    IF NoCreds THEN AfterDelete(Say(s, "S3 keys missing. Cannot delete file.", path), FALSE)
    ELSE Issue(s, "delete",
               Request("DELETE", "s3", Join(s.identifier, path), Empty, "delete", 0))

\* the key delete_file was called with
DeleteKey(s) == IF s.choice = "4" THEN s.srcPath ELSE s.selected

\* status codes delete_file takes for success
DeleteOk == {"200", "204"}

DeleteAnswer(s, o) ==
    LET t == [Answer(s, o) EXCEPT
                !.remote = IF o \in ServerDid THEN DeleteObject(@, DeleteKey(s)) ELSE @]
    IN  IF o = Exc THEN AfterDelete(Say(t, "Error during deletion", DeleteKey(s)), FALSE)
        ELSE IF o \in DeleteOk
        THEN AfterDelete(Say(t, "File deleted successfully", DeleteKey(s)), TRUE)
        ELSE AfterDelete(Say(t, "Failed to delete", DeleteKey(s)), FALSE)

\* source_path and destination_path
MovePath(dir, fileName) == IF dir # Empty THEN Join(dir, fileName) ELSE fileName

\* move_file(identifier, fileName, sourceDir, targetDir), up to its copy PUT
MoveFile(s, fileName, sourceDir, targetDir) ==
    IF NoCreds
    THEN Done([s EXCEPT !.ret = "False"], "S3 keys missing. Cannot move file.", fileName)
    ELSE LET src == MovePath(sourceDir, fileName)
             dst == MovePath(targetDir, fileName)
         IN  Issue([s EXCEPT !.srcPath = src], "copy",
                   Request("PUT", "s3", Join(s.identifier, dst),
                           <<Slash>> \o Join(s.identifier, src), "move", 0))

\* the key the copy PUT writes
CopyKey(s) == SubSeq(Last(s.log).path, Len(s.identifier) + 2, Len(Last(s.log).path))

\* status codes move_file takes for a successful copy
CopyOkAny == PutAnswers
CopyOk == {"200", "201"}

CopyAnswer(s, o) ==
    LET t == [Answer(s, o) EXCEPT
                !.remote = IF o \in ServerDid THEN PutObject(@, CopyKey(s)) ELSE @]
    IN  IF o = Exc THEN
            Done([t EXCEPT !.ret = "False"], "Error during file move (copy-delete)", Empty)
        ELSE IF o \notin CopyOk THEN
            Done([t EXCEPT !.ret = "False"], "Error copying file", s.srcPath)
        ELSE DeleteFile(Say(t, "File copied", s.srcPath), s.srcPath)

\* options 2, 3, 4 from the link prompt to the GET of list_repository_files
MainList(s, c, link) ==
    LET id == GetRepoIdentifier(link) IN
    IF id = Empty THEN Done([s EXCEPT !.choice = c], "Invalid Internet Archive URL", link)
    ELSE Issue([s EXCEPT !.choice = c, !.identifier = id], "get",
               Request("GET", "archive.org", Join(MetadataWord, id), Empty, "list", 0))

\* list_repository_files returns to main
Listed(s, o) ==
    [Say(Answer(s, o), ListMessage(o, s.remote), Empty) EXCEPT
        !.fileList = ListRepositoryFiles(o, s.remote)]

\* index = int(input().strip()) - 1, and the range check
ValidIndex(fl, isInt, n) == isInt /\ 0 <= n - 1 /\ n - 1 < Len(fl)

BadIndex(s, isInt) == Done(s, IF isInt THEN "Invalid index." ELSE "Invalid input.", Empty)

\* option 3 after the listing
MainDelete(s, isInt, n) ==
    IF s.fileList = <<>> THEN [s EXCEPT !.pc = "done"]
    ELSE IF ValidIndex(s.fileList, isInt, n)
    THEN DeleteFile([s EXCEPT !.selected = s.fileList[n]], s.fileList[n])
    ELSE BadIndex(s, isInt)

\* option 4 after the listing
MainMove(s, isInt, n, sourceDir, targetDir) ==
    IF s.fileList = <<>> THEN [s EXCEPT !.pc = "done"]
    ELSE IF ValidIndex(s.fileList, isInt, n)
    THEN MoveFile([s EXCEPT !.selected = s.fileList[n]], s.fileList[n], sourceDir, targetDir)
    ELSE BadIndex(s, isInt)

MenuList ==
    /\ pc = "menu"
    /\ \E c \in {"2", "3", "4"}, link \in Links : Apply(MainList(Cur, c, link))

ListAnswered ==
    /\ pc = "get" /\ choice = "2"
    /\ \E o \in GetAnswers : Apply([Listed(Cur, o) EXCEPT !.pc = "done"])

DeletePrompted ==
    /\ pc = "get" /\ choice = "3"
    /\ \E o \in GetAnswers, isInt \in BOOLEAN, n \in 0..(Len(remote) + 1) :
          Apply(MainDelete(Listed(Cur, o), isInt, n))

MovePrompted ==
    /\ pc = "get" /\ choice = "4"
    /\ \E o \in GetAnswers, isInt \in BOOLEAN, n \in 0..(Len(remote) + 1),
          sourceDir \in MoveDirs, targetDir \in MoveDirs :
          Apply(MainMove(Listed(Cur, o), isInt, n, sourceDir, targetDir))

\* the server copies only an object it holds
CopyAnswered ==
    /\ pc = "copy"
    /\ \E o \in PutAnswers :
          /\ o \in ServerDid => HasObject(remote, srcPath)
          /\ Apply(CopyAnswer(Cur, o))

DeleteAnswered ==
    /\ pc = "delete"
    /\ \E o \in DeleteAnswers : Apply(DeleteAnswer(Cur, o))

(***************************************************************************)
(* create_rules_file, initialize_repository, and main's option 5           *)
(***************************************************************************)
\* a file under the folder: <<directory relative to the folder, file name>>
FileA == <<Empty, <<"a", ".", "t", "x", "t">>>>
FileSubB == <<<<"s", "u", "b">>, <<"b", ".", "t", "x", "t">>>>
RulesFile == <<Empty, <<"_", "r", "u", "l", "e", "s", ".", "c", "o", "n", "f">>>>
FolderFiles == {FileA, FileSubB, RulesFile}

\* what the typed folder path names on disk
Folders == [isdir : BOOLEAN, writable : BOOLEAN, files : SUBSET FolderFiles]
NoFolder == [isdir |-> FALSE, writable |-> FALSE, files |-> {}]

\* os.path.relpath(os.path.join(root, file_name), folder_path)
RelPath(f) == IF f[1] = Empty THEN f[2] ELSE Join(f[1], f[2])

\* os.walk, top down: the folder's own files in some order, then its
\* subdirectories' files
WalkOrders(files) ==
    {q \in [1..Cardinality(files) -> files] :
        /\ \A i, j \in 1..Cardinality(files) : i # j => q[i] # q[j]
        /\ \A i, j \in 1..Cardinality(files) :
              i < j => ~(q[i][1] # Empty /\ q[j][1] = Empty)}

\* create_rules_file: the folder afterwards; open(rules_path, "w") raises in a
\* folder that cannot be written
RulesRaises(fol) == RulesFile \notin fol.files /\ ~fol.writable

AfterRules(fol) == [fol EXCEPT !.files = @ \cup {RulesFile}]

MetadataPost(s) ==
    Issue(s, "post",
          Request("POST", "archive.org",
                  Join(Join(MetadataWord, s.identifier), MetadataWord), Empty, "init", 0))

\* the walk's loop at its next file, up to its PUT or, past the last file, up
\* to the metadata POST
NextInitFile(s) ==
    IF s.walk = <<>> THEN MetadataPost(s)
    ELSE Issue(s, "initput",
               Request("PUT", "s3", Join(s.identifier, RelPath(Head(s.walk))),
                       Empty, "init", Cardinality(s.folder.files) - Len(s.walk) + 1))

\* except Exception as e: print("Error during upload:", e), and the loop goes on
InitPutRaised(s) ==
    NextInitFile([Say(s, "Error during upload", RelPath(Head(s.walk))) EXCEPT
                    !.walk = Tail(@)])

\* if response.status_code != 200: ... return
InitPutRejected(s) == Done(s, "Error uploading", RelPath(Head(s.walk)))

InitPutAnswer(s, o) ==
    LET t == [Answer(s, o) EXCEPT
                !.remote = IF o \in ServerDid THEN PutObject(@, RelPath(Head(s.walk))) ELSE @]
    IN  IF o = Exc THEN InitPutRaised(t)
        ELSE IF o # "200" THEN InitPutRejected(t)
        ELSE NextInitFile([Say(t, "uploaded successfully", RelPath(Head(s.walk))) EXCEPT
                             !.walk = Tail(@)])

PostAnswer(s, o) ==
    IF o = Exc THEN Done(Answer(s, o), "Error during metadata addition", Empty)
    ELSE IF o = "200" THEN Done(Answer(s, o), "Metadata added successfully", Empty)
    ELSE Done(Answer(s, o), "Error adding metadata", Empty)

\* the Test branch: one line per file the walk yields
RECURSIVE WouldUpload(_, _)
WouldUpload(s, order) ==
    IF order = <<>> THEN s
    ELSE WouldUpload(Say(s, "would upload", RelPath(Head(order))), Tail(order))

TestModeUploads(s, order) == NextInitFile([s EXCEPT !.walk = order])

TestMode(s, order) ==
    Done(WouldUpload(s, order), "No files uploaded. Test mode complete.", Empty)

\* initialize_repository(folder_path, identifier, metadata, mode); order is the
\* order in which os.walk yields the folder's files
InitializeRepository(s, order) ==
    IF NoCreds THEN Done(s, "S3 access key or secret key is missing", Empty)
    ELSE IF s.mode = "Test" THEN TestMode(s, order)
    ELSE NextInitFile([s EXCEPT !.walk = order])

\* main, option 5: create_rules_file
MainRules(s, fol) ==
    IF RulesFile \in fol.files THEN Say(s, "_rules.conf already exists", Empty)
    ELSE IF RulesRaises(fol) THEN [s EXCEPT !.pc = "crashed"]
    ELSE [Say(s, "Created _rules.conf", Empty) EXCEPT !.folder = AfterRules(fol)]

\* main, option 5, from the folder prompt on
MainInit(s, fol, modeChoice, ident, order) ==
    IF ~fol.isdir THEN Done([s EXCEPT !.choice = "5"], "Invalid folder path", Empty)
    ELSE IF modeChoice \notin {"1", "2"}
    THEN Done([s EXCEPT !.choice = "5"], "Invalid choice. Exiting.", Empty)
    ELSE LET t == MainRules([s EXCEPT !.choice = "5", !.folder = fol,
                                      !.mode = IF modeChoice = "1" THEN "Test"
                                               ELSE "Permanent"], fol)
         IN  IF t.pc # "menu" THEN t
             ELSE IF ident = Empty THEN Done(t, "Repository identifier is required.", Empty)
             ELSE InitializeRepository([t EXCEPT !.identifier = ident], order)

NewIdent == <<"n", "e", "w">>

MenuInit ==
    /\ pc = "menu"
    /\ \E fol \in Folders, modeChoice \in MenuAnswers, ident \in {Empty, NewIdent} :
          \E order \in WalkOrders(IF RulesRaises(fol) THEN fol.files
                                  ELSE AfterRules(fol).files) :
             Apply(MainInit(Cur, fol, modeChoice, ident, order))

InitPutAnswered ==
    /\ pc = "initput"
    /\ \E o \in PutAnswers : Apply(InitPutAnswer(Cur, o))

PostAnswered ==
    /\ pc = "post"
    /\ \E o \in PostAnswers : Apply(PostAnswer(Cur, o))

(***************************************************************************)
(* main's menu, and the program                                            *)
(***************************************************************************)
\* choice "6": print_help(), then main() again
MenuHelp ==
    /\ pc = "menu" /\ depth < MaxHelp
    /\ Apply([Cur EXCEPT !.depth = @ + 1])

\* any other answer
MenuInvalid ==
    /\ pc = "menu"
    /\ Apply(Done([Cur EXCEPT !.choice = "x"], "Invalid choice. Exiting.", Empty))

\* the item as the server holds it when the program starts
MainRemotes == {<<Named(NameTxt), Unnamed, Named(NameJpg), Named(NameThumbFile)>>}

Locals ==
    /\ depth = 0 /\ log = <<>> /\ report = <<>> /\ choice = "" /\ identifier = Empty
    /\ directory = Empty /\ ret = "none" /\ fileList = <<>> /\ selected = Empty
    /\ srcPath = Empty /\ batch = <<>> /\ fileIdx = 0 /\ offset = 0 /\ attempts = <<>>
    /\ results = <<>> /\ folder = NoFolder /\ mode = "" /\ walk = <<>> /\ calls = <<>>

Init ==
    /\ pc = "menu"
    /\ accessKey \in CredValues /\ secretKey \in CredValues
    /\ remote \in MainRemotes
    /\ Locals

Next ==
    \/ MenuHelp \/ MenuInvalid
    \/ MenuUpload \/ UploadAnswered
    \/ MenuList \/ ListAnswered \/ DeletePrompted \/ MovePrompted
    \/ CopyAnswered \/ DeleteAnswered
    \/ MenuInit \/ InitPutAnswered \/ PostAnswered

Spec == Init /\ [][Next]_vars

(***************************************************************************)
(* list_repository_files called again and again on one item, whose records *)
(* the server's other clients may remove in between.                       *)
(***************************************************************************)
\* the call's record: the GET's outcome, the list returned, and whether the
\* item has changed since
ListCalled(o) ==
    <<[outcome |-> o, result |-> ListRepositoryFiles(o, remote), stale |-> FALSE]>>
        \o SubSeq(calls, 1, IF calls = <<>> THEN 0 ELSE 1)

ListCall ==
    /\ pc = "listing"
    /\ \E o \in GetAnswers : calls' = ListCalled(o)
    /\ UNCHANGED <<pc, depth, accessKey, secretKey, remote, log, report, choice,
                   identifier, directory, ret, fileList, selected, srcPath, batch,
                   fileIdx, offset, attempts, results, folder, mode, walk>>

RemoteChanged ==
    /\ pc = "listing"
    /\ \E i \in 1..Len(remote) :
          remote' = SubSeq(remote, 1, i - 1) \o SubSeq(remote, i + 1, Len(remote))
    /\ calls' = [k \in 1..Len(calls) |-> [calls[k] EXCEPT !.stale = TRUE]]
    /\ UNCHANGED <<pc, depth, accessKey, secretKey, log, report, choice,
                   identifier, directory, ret, fileList, selected, srcPath, batch,
                   fileIdx, offset, attempts, results, folder, mode, walk>>

InitList ==
    /\ pc = "listing"
    /\ accessKey = "KEY" /\ secretKey = "KEY"
    /\ remote \in SeqsUpTo(FileRecords, MaxFiles)
    /\ Locals

NextList == ListCall \/ RemoteChanged

SpecList == InitList /\ [][NextList]_vars

(***************************************************************************)
(* The properties.                                                         *)
(***************************************************************************)
\* positions of the log's entries that satisfy Test
Entries(Test(_)) == {i \in 1..Len(log) : Test(log[i])}

IsMutating(e) == e.method # "GET"
IsCopy(e) == e.caller = "move"
IsDelete(e) == e.method = "DELETE"
IsPost(e) == e.method = "POST"
IsInitPut(e) == e.caller = "init" /\ e.method = "PUT"

\* the name has a "/"-separated component that ends in ".thumbs": the text
\* .thumbs stands in it right before a "/" or at its end
HasThumbsComponent(name) ==
    \E p \in Len(Thumbs)..Len(name) :
        /\ SubSeq(name, p - Len(Thumbs) + 1, p) = Thumbs
        /\ (p = Len(name) \/ name[p + 1] = Slash)

\* the names a listing of the given records is to return, in their order
KeptNames(files) ==
    LET kept == SelectSeq(files, LAMBDA r : r.hasName /\ ~HasThumbsComponent(r.name))
    IN  [i \in 1..Len(kept) |-> kept[i].name]

KeyOf(e) == SubSeq(e.path, Len(identifier) + 2, Len(e.path))

\* C1: in move_file with credentials present, a copy PUT that does not
\* return 200/201 (or raises) is followed by no DELETE and the move returns
\* False; after a copy that succeeded, a DELETE of the source that fails leaves
\* the move returning False with the object under both keys and no further
\* request; the move returns True only after the copy and then the delete
\* have succeeded.
MoveCopiesThenDeletes ==
    choice = "4" =>
        LET copies == Entries(IsCopy)
            dels == Entries(IsDelete)
            CopyDone(i) == log[i].outcome \in {"200", "201"}
            DelDone(j) == log[j].outcome \in {"200", "204"}
        IN  /\ Cardinality(copies) <= 1 /\ Cardinality(dels) <= 1
            /\ \A j \in dels : \E i \in copies : i < j /\ CopyDone(i)
            /\ \A j \in dels : log[j].path = Join(identifier, srcPath)
            /\ (pc = "done" /\ copies # {}) =>
                  \A i \in copies :
                     /\ ~CopyDone(i) => (dels = {} /\ ret = "False")
                     /\ CopyDone(i) =>
                          \E j \in dels :
                             /\ j = Len(log)
                             /\ ~DelDone(j) =>
                                   /\ ret = "False"
                                   /\ HasObject(remote, srcPath)
                                   /\ HasObject(remote, KeyOf(log[i]))
                             /\ DelDone(j) => ret = "True"
            /\ ret = "True" =>
                  \E i \in copies, j \in dels : i < j /\ CopyDone(i) /\ DelDone(j)

\* C1's case: the copy succeeded, the delete failed, both objects are there
MoveHalfDoneWitness ==
    /\ choice = "4" /\ pc = "done" /\ ret = "False"
    /\ \E i \in Entries(IsCopy), j \in Entries(IsDelete) :
          /\ log[i].outcome \in {"200", "201"}
          /\ log[j].outcome \in {"404", "503", Exc}
          /\ srcPath # KeyOf(log[i])
          /\ HasObject(remote, srcPath) /\ HasObject(remote, KeyOf(log[i]))

\* C10: in option 4 the object copied and then deleted is the file selected
\* from the listing: the x-amz-copy-source header and the DELETE's path both
\* name the selected entry's path in the repository.
MoveActsOnSelectedEntry ==
    choice = "4" =>
        /\ \A i \in Entries(IsCopy) :
              log[i].copySource = <<Slash>> \o Join(identifier, selected)
        /\ \A j \in Entries(IsDelete) : log[j].path = Join(identifier, selected)

\* C7: with either credential unset or empty, every mutating operation ends
\* by reporting the missing credentials, no request other than the listing's
\* GET is ever issued, and the item stays as it was.
NoKeysNoRequest ==
    (accessKey \in {"unset", ""} \/ secretKey \in {"unset", ""}) =>
        LET Reported(msg) == report # <<>> /\ Last(report).msg = msg
            Called == pc # "menu" /\ pc # "crashed"
        IN  /\ Entries(IsMutating) = {}
            /\ remote \in MainRemotes
            /\ pc \in {"menu", "get", "done", "crashed"}
            /\ (choice = "1" /\ batch # <<>> /\ \A k \in 1..Len(batch) : LocalExists(batch[k])) =>
                  /\ Len(results) = Len(batch)
                  /\ \A k \in 1..Len(results) : ~results[k]
                  /\ \E k \in 1..Len(report) :
                        report[k].msg = "S3 access key or secret key is missing"
            /\ (choice = "3" /\ selected # Empty) =>
                  /\ ret = "False" /\ Reported("S3 keys missing. Cannot delete file.")
            /\ (choice = "4" /\ selected # Empty) =>
                  /\ ret = "False" /\ Reported("S3 keys missing. Cannot move file.")
            /\ (choice = "5" /\ identifier # Empty /\ Called) =>
                  Reported("S3 access key or secret key is missing")

\* C7's case: delete_file was called with the secret key missing
NoKeysWitness ==
    /\ ~Missing(accessKey) /\ Missing(secretKey)
    /\ choice = "3" /\ selected # Empty /\ pc = "done"

\* the latest call whose exchange has had an answer
LastAnswered ==
    log[CHOOSE i \in 1..Len(log) :
          /\ log[i].outcome # "pending"
          /\ \A j \in (i + 1)..Len(log) : log[j].outcome = "pending"]

Times(n, o) == [i \in 1..n |-> o]

\* C2, the five counted as retries: a chunk PUT is attempted at most 6 times,
\* the first attempt and up to 5 retries; an attempt is retried only after a
\* 500/502/503/504 response or a transport error; 503 on the first 4 attempts
\* and 200 on the 5th is a success; after 503 on the first 5 attempts a 6th is
\* made, and its response decides; after 503 on all 6 the upload fails with no
\* further attempt.
ChunkPutTriedUpToSixTimes ==
    (choice = "1" /\ attempts # <<>>) =>
        /\ Len(attempts) <= 6
        /\ \A i \in 1..(Len(attempts) - 1) :
              attempts[i] # Exc => attempts[i] \in {"500", "502", "503", "504"}
        /\ attempts = Times(4, "503") \o <<"200">> =>
              /\ LastAnswered.outcome = "200"
              /\ batch[LastAnswered.item] = PathOne => results[LastAnswered.item]
        /\ attempts = Times(5, "503") =>
              /\ pc = "put" /\ LastAnswered.outcome = "retrying"
        /\ attempts = Times(5, "503") \o <<"200">> =>
              /\ LastAnswered.outcome = "200"
              /\ batch[LastAnswered.item] = PathOne => results[LastAnswered.item]
        /\ attempts = Times(6, "503") =>
              /\ LastAnswered.outcome = "raised"
              /\ ~results[LastAnswered.item]
              /\ ~(pc = "put" /\ Last(log).item = LastAnswered.item)

\* C2's case: the sixth attempt of a one-chunk file's PUT succeeds
SixthAttemptWitness ==
    /\ choice = "1" /\ pc = "done" /\ batch = <<PathOne>>
    /\ attempts = Times(5, "503") \o <<"200">>
    /\ results = <<TRUE>>

\* C2, the five counted as attempts: a chunk PUT is attempted at most 5 times
\* in total, only a 500/502/503/504 response being retried; 503 four times and
\* then 200 is a success; 503 on all 5 attempts is a failure with no further
\* attempt.
ChunkPutTriedUpToFiveTimes ==
    (choice = "1" /\ attempts # <<>>) =>
        /\ Len(attempts) <= 5
        /\ \A i \in 1..(Len(attempts) - 1) :
              attempts[i] # Exc => attempts[i] \in {"500", "502", "503", "504"}
        /\ attempts = Times(4, "503") \o <<"200">> => LastAnswered.outcome = "200"
        /\ attempts = Times(5, "503") =>
              /\ LastAnswered.outcome = "raised"
              /\ ~results[LastAnswered.item]

\* the PUTs of the batch's k-th file, oldest first
PutsOf(k) == SelectSeq(log, LAMBDA e : e.caller = "upload" /\ e.item = k)

\* the number of 2 MiB chunks of a file of the given size
ChunksOf(size) == (size + 2097151) \div 2097152

\* C9: upload_file_with_progress reads the file in 2 MiB chunks, one PUT per
\* chunk to one URL; the first chunk whose PUT ends otherwise than with 200
\* ends the upload with False, no later chunk being sent and what the server
\* took staying there; it returns True only if every chunk's PUT returned 200.
UploadStopsAtFirstFailedChunk ==
    (choice = "1" /\ accessKey = "KEY" /\ secretKey = "KEY") =>
        \A k \in 1..Len(batch) : \A puts \in {PutsOf(k)} :
            LET n == Len(puts)
                Ok(i) == puts[i].outcome = "200"
            IN  /\ n <= ChunksOf(LocalSize(batch[k]))
                /\ \A i \in 1..n : puts[i].path = puts[1].path
                /\ \A i \in 1..(n - 1) : Ok(i)
                /\ (pc = "put" /\ fileIdx = k) =>
                      /\ n >= 1 /\ offset = 2097152 * (n - 1)
                      /\ puts[n].outcome \in {"pending", "retrying"}
                /\ \A i \in 1..n :
                      puts[i].outcome \in {"200", "201"} =>
                          HasObject(remote, Join(directory, Basename(batch[k])))
                /\ k <= Len(results) =>
                      /\ results[k] <=>
                            (n = ChunksOf(LocalSize(batch[k])) /\ \A i \in 1..n : Ok(i))
                      /\ ~results[k] =>
                            (n >= 1 /\ puts[n].outcome \in {"201", "404", "raised"})

\* C9's case: the second of three chunks is refused and the third never sent
SecondChunkRefusedWitness ==
    /\ choice = "1" /\ pc = "done" /\ batch = <<PathBig>> /\ results = <<FALSE>>
    /\ Len(PutsOf(1)) = 2
    /\ PutsOf(1)[1].outcome = "200" /\ PutsOf(1)[2].outcome = "404"

\* C4: in option 1, if a path of the batch does not exist locally, the
\* operation reports "File not found" and ends without any network call: no
\* file of the batch, before or after the missing one, is uploaded.
MissingFileStopsBatch ==
    (choice = "1" /\ \E k \in 1..Len(batch) : ~LocalExists(batch[k])) =>
        /\ pc = "done"
        /\ log = <<>> /\ results = <<>>
        /\ remote \in MainRemotes
        /\ Last(report).msg = "File not found"
        /\ ~LocalExists(Last(report).arg)

\* C4's case: the missing path is typed after one that exists
MissingSecondWitness ==
    /\ choice = "1" /\ pc = "done" /\ Len(batch) = 2
    /\ LocalExists(batch[1]) /\ LocalSize(batch[1]) > 0 /\ ~LocalExists(batch[2])

\* C3: in Permanent mode the first file upload that fails, by a non-200
\* status or by a transport exception, ends the initialization: no later file
\* is PUT and the metadata POST is not issued; the POST is issued at most
\* once, and only when every file under the folder has been uploaded.
InitStopsAtFirstFailedUpload ==
    (choice = "5" /\ mode = "Permanent") =>
        LET sent == Entries(IsInitPut)
            posts == Entries(IsPost)
            Failed(i) == log[i].outcome \notin {"pending", "200"}
        IN  /\ \A i \in sent : Failed(i) => i = Len(log)
            /\ Cardinality(posts) <= 1
            /\ posts # {} =>
                  \A f \in folder.files :
                     \E i \in sent :
                        /\ log[i].path = Join(identifier, RelPath(f))
                        /\ log[i].outcome = "200"

\* C5, the folder as the walk finds it: in Test mode no request is ever
\* issued; with both
\* credentials set, the "would upload" lines name, once each, exactly the
\* files under the folder at the time of the walk, the _rules.conf that main
\* has just created there included.
TestModeListsFolderWithRules ==
    (choice = "5" /\ mode = "Test") =>
        LET lines == {k \in 1..Len(report) : report[k].msg = "would upload"}
        IN  /\ log = <<>>
            /\ pc \in {"done", "crashed"}
            /\ (pc = "done" /\ Last(report).msg = "No files uploaded. Test mode complete.") =>
                  /\ {report[k].arg : k \in lines} = {RelPath(f) : f \in folder.files}
                  /\ Cardinality(lines) = Cardinality(folder.files)
                  /\ RulesFile \in folder.files
                  /\ accessKey = "KEY" /\ secretKey = "KEY"
            /\ (accessKey # "KEY" \/ secretKey # "KEY") => lines = {}

\* C5's case: the folder held a.txt and sub/b.txt when it was chosen
TestModeWitness ==
    /\ choice = "5" /\ mode = "Test" /\ pc = "done"
    /\ Last(report).msg = "No files uploaded. Test mode complete."
    /\ folder.files = {FileA, FileSubB, RulesFile}
    /\ \E k \in 1..Len(report) : report[k].msg = "Created _rules.conf"

\* the files the folder held when the user named it
FilesWhenChosen ==
    IF \E k \in 1..Len(report) : report[k].msg = "Created _rules.conf"
    THEN folder.files \ {RulesFile}
    ELSE folder.files

\* C5, the folder as the user named it: in Test mode no request is issued,
\* and the "would upload"
\* list is exactly the set of files of the source folder: {a.txt, sub/b.txt}
\* for a folder holding a.txt and sub/b.txt.
TestModeListsFolderAsChosen ==
    (choice = "5" /\ mode = "Test") =>
        /\ log = <<>>
        /\ (pc = "done" /\ Last(report).msg = "No files uploaded. Test mode complete.") =>
              {report[k].arg : k \in {j \in 1..Len(report) : report[j].msg = "would upload"}}
                  = {RelPath(f) : f \in FilesWhenChosen}

\* C6: no failure is fatal: whatever the menu choice and the outcome of a
\* filesystem or HTTP step, the operation ends by reporting and returning, and
\* no exception escapes main.
NoExceptionEscapesMain == pc # "crashed"

====
